---- MODULE Spec2Model ----
(***************************************************************************)
(* DeepWeb Search backend: the TTL response cache (cache_service.py), the  *)
(* result deduplicator and ranker (ranking_service.py), the query analyzer *)
(* (query_analyzer.py), the DuckDuckGo adapter with its retry loop         *)
(* (sources/duckduckgo.py) and the /api/search handler (main.py) that      *)
(* composes them around the concurrent source fetches and the best-effort  *)
(* persistence to MongoDB.                                                 *)
(*                                                                         *)
(* Text that the code inspects character by character (cache-key parts,    *)
(* URLs, titles, snippets, queries) is a sequence of one-character         *)
(* strings; text the code only carries around (error messages, mode and    *)
(* status labels) is an ordinary string.  Scores are kept in tenths so     *)
(* that the weights 1.5, 0.5 and the floor 0.1 stay integers.              *)
(***************************************************************************)
EXTENDS Integers, Sequences, FiniteSets, TLC

VARIABLES
    now,        \* the wall clock read by datetime.utcnow() / time.time(), in seconds
    cache,      \* CacheService.cache: key -> [value, timestamp]
    hits,       \* CacheService.hits
    misses,     \* CacheService.misses
    heap,       \* the response dicts alive in the process: object id -> dict
    calls,      \* one record per request slot of the event loop (a running search coroutine)
    log,        \* what each finished search call handed back to its caller, in order
    nSearch,    \* number of search calls started so far (also names the dict each allocates)
    db,         \* MongoDB as seen by the handler: connection, inserted records
    workload,   \* the set of requests clients send in this run
    written,    \* cache API driver: key -> [value, at] of the last set not cleared since
    lastOp,     \* cache API driver: the last get/set/clear issued and what it returned
    calc        \* function driver: the arguments of one call of a pure function and its value

vars == <<now, cache, hits, misses, heap, calls, log, nSearch, db, workload, written, lastOp, calc>>

None == "None"

-----------------------------------------------------------------------------
(* Bounds of the exploration *)

\* the clock advances in steps of half a TTL, at most this many times
MaxTicks == 2
\* number of search calls issued in one run
MaxSearches == 2
\* number of get calls issued by the cache API driver in one run
MaxGets == 2

-----------------------------------------------------------------------------
(* Text helpers: what str methods, sorted() and re.findall do *)

\* the characters in use, in code point order
Alphabet ==
    <<" ", "+", ",", ".", "/", "0", "1", "2", "3", "4", "5", "6", "7", "8", "9", ":", "?",
      "A", "B", "C", "D", "E", "F", "G", "H", "I", "J", "K", "L", "M", "N", "O",
      "P", "Q", "R", "S", "T", "U", "V", "W", "X", "Y", "Z", "_",
      "a", "b", "c", "d", "e", "f", "g", "h", "i", "j", "k", "l", "m", "n", "o",
      "p", "q", "r", "s", "t", "u", "v", "w", "x", "y", "z">>

OrdTable == [c \in {Alphabet[i] : i \in 1..Len(Alphabet)} |->
               CHOOSE i \in 1..Len(Alphabet) : Alphabet[i] = c]

\* ord(c)
Ord(c) == OrdTable[c]

Digits == <<"0", "1", "2", "3", "4", "5", "6", "7", "8", "9">>

IsUpper(c) == Ord(c) >= Ord("A") /\ Ord(c) <= Ord("Z")

IsLower(c) == Ord(c) >= Ord("a") /\ Ord(c) <= Ord("z")

IsWordChar(c) == c \notin {" ", "+", ",", ".", "/", ":", "?"}

\* str.lower()
Lower(s) == [i \in 1..Len(s) |->
               IF IsUpper(s[i]) THEN Alphabet[Ord(s[i]) + (Ord("a") - Ord("A"))] ELSE s[i]]

\* str < str: lexicographic by code point, a proper prefix first
RECURSIVE StrLess(_, _)
StrLess(s, t) ==
    IF t = <<>> THEN FALSE
    ELSE IF s = <<>> THEN TRUE
    ELSE IF s[1] # t[1] THEN Ord(s[1]) < Ord(t[1])
    ELSE StrLess(Tail(s), Tail(t))

\* insertion of x into an ascending list, after the elements not greater than x
RECURSIVE InsertSorted(_, _)
InsertSorted(x, l) ==
    IF l = <<>> THEN <<x>>
    ELSE IF StrLess(x, l[1]) THEN <<x>> \o l
    ELSE <<l[1]>> \o InsertSorted(x, Tail(l))

\* sorted(list of str)
RECURSIVE Sorted(_)
Sorted(l) == IF l = <<>> THEN <<>> ELSE InsertSorted(l[Len(l)], Sorted(SubSeq(l, 1, Len(l) - 1)))

\* sep.join(list of str)
RECURSIVE Join(_, _)
Join(sep, l) ==
    IF l = <<>> THEN <<>>
    ELSE IF Len(l) = 1 THEN l[1]
    ELSE l[1] \o sep \o Join(sep, Tail(l))

\* str(int) for a non-negative int
RECURSIVE IntToStr(_)
IntToStr(n) == IF n < 10 THEN <<Digits[n + 1]>> ELSE IntToStr(n \div 10) \o <<Digits[(n % 10) + 1]>>

\* s.startswith(p)
StartsWith(s, p) == Len(s) >= Len(p) /\ SubSeq(s, 1, Len(p)) = p

\* p in s
Contains(s, p) == \E i \in 1..(Len(s) - Len(p) + 1) : SubSeq(s, i, i + Len(p) - 1) = p

-----------------------------------------------------------------------------
(* cache_service.py *)

\* cache = CacheService(ttl_seconds=1800)
ttl_seconds == 1800

\* the entry count above which set() sweeps
CleanupThreshold == 1000

\* hashlib.md5(data.encode()).hexdigest(): the digest stands for the text hashed
\* (no two texts of the model share a digest)
Md5Hex(data) == <<"md5", data>>

\* a key derivation that forgets to sort its list arguments
generate_key_unsorted(query, sources, languages, max_results) ==
    Md5Hex(query \o <<":">> \o Join(<<",">>, sources) \o <<":">>
                 \o Join(<<",">>, languages) \o <<":">> \o IntToStr(max_results))

generate_key(query, sources, languages, max_results) ==
    Md5Hex(query \o <<":">> \o Join(<<",">>, Sorted(sources)) \o <<":">>
                 \o Join(<<",">>, Sorted(languages)) \o <<":">> \o IntToStr(max_results))

\* an expiry test that keeps an entry one instant too long
NotExpiredInclusive(timestamp, t) == t - timestamp <= ttl_seconds

\* datetime.utcnow() - timestamp < timedelta(seconds=self.ttl_seconds)
NotExpired(timestamp, t) == t - timestamp < ttl_seconds

Remove(f, k) == [x \in DOMAIN f \ {k} |-> f[x]]

Put(f, k, v) == [x \in DOMAIN f \cup {k} |-> IF x = k THEN v ELSE f[x]]

\* CacheService.get, its three results: the value returned, the map and the counters after
GetHit(c, key, t) == key \in DOMAIN c /\ NotExpired(c[key].timestamp, t)

GetValue(c, key, t) == IF GetHit(c, key, t) THEN c[key].value ELSE None

\* a get that takes the entry it finds out of the cache
CacheAfterGetConsuming(c, key, t) == IF key \in DOMAIN c THEN Remove(c, key) ELSE c

\* a get that, finding its entry expired, removes every expired entry
CacheAfterGetSweeping(c, key, t) ==
    IF key \in DOMAIN c /\ ~NotExpired(c[key].timestamp, t)
    THEN [k \in {x \in DOMAIN c : NotExpired(c[x].timestamp, t)} |-> c[k]]
    ELSE c

\* a get that restarts the TTL of the entry it returns
CacheAfterGetTouching(c, key, t) ==
    IF key \in DOMAIN c
    THEN (IF NotExpired(c[key].timestamp, t)
          THEN [c EXCEPT ![key].timestamp = t]
          ELSE Remove(c, key))
    ELSE c

CacheAfterGet(c, key, t) ==
    IF key \in DOMAIN c /\ ~NotExpired(c[key].timestamp, t) THEN Remove(c, key) ELSE c

\* a sweep that keeps the entries whose age is exactly the TTL
cleanup_older_entries(c, t) ==
    LET expired_keys == {k \in DOMAIN c : t - c[k].timestamp > ttl_seconds}
    IN  [k \in DOMAIN c \ expired_keys |-> c[k]]

\* CacheService.cleanup_old_entries
cleanup_old_entries(c, t) ==
    LET expired_keys == {k \in DOMAIN c : t - c[k].timestamp >= ttl_seconds}
    IN  [k \in DOMAIN c \ expired_keys |-> c[k]]

\* a set that leaves the entry already under the key where it is
CacheAfterSetIfAbsent(c, key, value, t) ==
    IF key \in DOMAIN c THEN c ELSE Put(c, key, [value |-> value, timestamp |-> t])

\* CacheService.set: the map after
CacheAfterSet(c, key, value, t) ==
    LET c1 == Put(c, key, [value |-> value, timestamp |-> t])
    IN  IF Cardinality(DOMAIN c1) > CleanupThreshold THEN cleanup_old_entries(c1, t) ELSE c1

-----------------------------------------------------------------------------
(* ranking_service.py *)

\* s.rstrip(ch)
RECURSIVE RStrip(_, _)
RStrip(s, ch) ==
    IF s # <<>> /\ s[Len(s)] = ch THEN RStrip(SubSeq(s, 1, Len(s) - 1), ch) ELSE s

\* s.replace(p, ''): every non-overlapping occurrence, found left to right
RECURSIVE Delete(_, _)
Delete(s, p) ==
    IF s = <<>> THEN <<>>
    ELSE IF StartsWith(s, p) THEN Delete(SubSeq(s, Len(p) + 1, Len(s)), p)
    ELSE <<s[1]>> \o Delete(Tail(s), p)

\* set(re.findall(r'\b\w+\b', s)): the maximal runs of word characters
WordsOf(s) ==
    {SubSeq(s, i, j) : <<i, j>> \in
        {<<i, j>> \in (1..Len(s)) \X (1..Len(s)) :
            /\ i <= j
            /\ \A k \in i..j : IsWordChar(s[k])
            /\ (i = 1 \/ ~IsWordChar(s[i - 1]))
            /\ (j = Len(s) \/ ~IsWordChar(s[j + 1]))}}

\* len(s.split()): the number of maximal runs of non-blank characters
SplitCount(s) ==
    Cardinality({i \in 1..Len(s) : s[i] # " " /\ (i = 1 \/ s[i - 1] = " ")})

high_authority ==
    << <<"w", "i", "k", "i", "p", "e", "d", "i", "a", ".", "o", "r", "g">>,
       <<"g", "i", "t", "h", "u", "b", ".", "c", "o", "m">>,
       <<"s", "t", "a", "c", "k", "o", "v", "e", "r", "f", "l", "o", "w", ".", "c", "o", "m">>,
       <<"m", "e", "d", "i", "u", "m", ".", "c", "o", "m">>,
       <<"r", "e", "d", "d", "i", "t", ".", "c", "o", "m">>,
       <<"n", "y", "t", "i", "m", "e", "s", ".", "c", "o", "m">>,
       <<"b", "b", "c", ".", "c", "o", "m">>,
       <<"n", "a", "t", "u", "r", "e", ".", "c", "o", "m">>,
       <<"s", "c", "i", "e", "n", "c", "e", "d", "i", "r", "e", "c", "t", ".", "c", "o", "m">>,
       <<"a", "r", "x", "i", "v", ".", "o", "r", "g">>,
       <<"g", "o", "v">>,
       <<"e", "d", "u">>,
       <<"a", "c", ".", "u", "k">> >>

HttpScheme == <<"h", "t", "t", "p", ":", "/", "/">>
HttpsScheme == <<"h", "t", "t", "p", "s", ":", "/", "/">>
WwwPrefix == <<"w", "w", "w", ".">>

\* RankingService._domain_authority_score, in tenths
domain_authority_score(url) ==
    IF \E i \in 1..Len(high_authority) : Contains(url, high_authority[i]) THEN 30
    ELSE IF StartsWith(url, HttpsScheme) THEN 5
    ELSE 0

Max(a, b) == IF a >= b THEN a ELSE b
Min(a, b) == IF a <= b THEN a ELSE b

\* RankingService._calculate_score up to the floor, in tenths
raw_score(result, query_keywords, query_lower) ==
    LET title == Lower(result.title)
        snippet == Lower(result.snippet)
        url == Lower(result.url)
        title_length == SplitCount(title)
        snippet_length == SplitCount(snippet)
        score ==
              (IF Contains(title, query_lower) THEN 100 ELSE 0)
            + Cardinality(query_keywords \cap WordsOf(title)) * 30
            + (IF Contains(snippet, query_lower) THEN 50 ELSE 0)
            + Cardinality(query_keywords \cap WordsOf(snippet)) * 15
            + Cardinality(query_keywords \cap WordsOf(url)) * 10
            + domain_authority_score(url)
            + (IF 3 <= title_length /\ title_length <= 15 THEN 20
               ELSE IF title_length < 3 \/ title_length > 20 THEN -10 ELSE 0)
            + (IF snippet_length > 15 THEN 10
               ELSE IF snippet_length < 5 THEN -10 ELSE 0)
    IN  score

\* a score without the floor
calculate_score_unfloored(result, query_keywords, query_lower) ==
    raw_score(result, query_keywords, query_lower)

\* RankingService._calculate_score, in tenths: max(score, 0.1)
calculate_score(result, query_keywords, query_lower) ==
    Max(raw_score(result, query_keywords, query_lower), 1)

\* an insertion that puts r before the elements scoring the same
RECURSIVE insert_before_equal(_, _)
insert_before_equal(r, l) ==
    IF l = <<>> THEN <<r>>
    ELSE IF r.score >= l[1].score THEN <<r>> \o l
    ELSE <<l[1]>> \o insert_before_equal(r, Tail(l))

\* insertion of r into a list descending by score, after the elements scoring no less
RECURSIVE InsertByScore(_, _)
InsertByScore(r, l) ==
    IF l = <<>> THEN <<r>>
    ELSE IF r.score > l[1].score THEN <<r>> \o l
    ELSE <<l[1]>> \o InsertByScore(r, Tail(l))

\* sorted(results, key=score, reverse=True): stable
RECURSIVE SortedByScore(_)
SortedByScore(l) ==
    IF l = <<>> THEN <<>>
    ELSE InsertByScore(l[Len(l)], SortedByScore(SubSeq(l, 1, Len(l) - 1)))

\* RankingService.rank_results
rank_results(results, query) ==
    LET query_lower == Lower(query)
        query_keywords == WordsOf(query_lower)
        scored == [i \in 1..Len(results) |->
                     [results[i] EXCEPT !.score =
                         calculate_score(results[i], query_keywords, query_lower)]]
    IN  SortedByScore(scored)

\* RankingService._normalize_url
normalize_url(url) ==
    Delete(Delete(Delete(RStrip(Lower(url), "/"), HttpScheme), HttpsScheme), WwwPrefix)

\* a deduplication that keeps the last result of every group of duplicates
RECURSIVE deduplicate_keeping_last(_)
deduplicate_keeping_last(results) ==
    IF results = <<>> THEN <<>>
    ELSE LET rest == deduplicate_keeping_last(Tail(results))
         IN  IF \E i \in 1..Len(rest) : normalize_url(rest[i].url) = normalize_url(results[1].url)
             THEN rest
             ELSE <<results[1]>> \o rest

\* RankingService.deduplicate_results
RECURSIVE deduplicate_results(_)
deduplicate_results(results) ==
    IF results = <<>> THEN <<>>
    ELSE LET head == deduplicate_results(SubSeq(results, 1, Len(results) - 1))
             last == results[Len(results)]
         IN  IF \E i \in 1..Len(head) : normalize_url(head[i].url) = normalize_url(last.url)
             THEN head
             ELSE Append(head, last)

-----------------------------------------------------------------------------
(* query_analyzer.py *)

TECHNICAL_KEYWORDS ==
    { <<"a", "p", "i">>, <<"s", "d", "k">>, <<"l", "i", "b", "r", "a", "r", "y">>,
      <<"f", "r", "a", "m", "e", "w", "o", "r", "k">>, <<"c", "o", "d", "e">>,
      <<"p", "r", "o", "g", "r", "a", "m", "m", "i", "n", "g">>,
      <<"p", "y", "t", "h", "o", "n">>, <<"j", "a", "v", "a", "s", "c", "r", "i", "p", "t">>,
      <<"j", "a", "v", "a">>, <<"c", "+", "+">>, <<"d", "a", "t", "a", "b", "a", "s", "e">>,
      <<"s", "q", "l">>, <<"a", "l", "g", "o", "r", "i", "t", "h", "m">>,
      <<"f", "u", "n", "c", "t", "i", "o", "n">>, <<"c", "l", "a", "s", "s">>,
      <<"m", "e", "t", "h", "o", "d">>, <<"e", "r", "r", "o", "r">>, <<"b", "u", "g">>,
      <<"i", "n", "s", "t", "a", "l", "l">>,
      <<"c", "o", "n", "f", "i", "g", "u", "r", "a", "t", "i", "o", "n">>,
      <<"d", "o", "c", "k", "e", "r">>, <<"k", "u", "b", "e", "r", "n", "e", "t", "e", "s">>,
      <<"g", "i", "t">> }

SENSITIVE_KEYWORDS ==
    { <<"p", "a", "s", "s", "w", "o", "r", "d">>, <<"h", "a", "c", "k">>,
      <<"e", "x", "p", "l", "o", "i", "t">>,
      <<"v", "u", "l", "n", "e", "r", "a", "b", "i", "l", "i", "t", "y">>,
      <<"l", "e", "a", "k">>, <<"b", "r", "e", "a", "c", "h">>,
      <<"i", "l", "l", "e", "g", "a", "l">>, <<"p", "i", "r", "a", "c", "y">>,
      <<"c", "r", "a", "c", "k">>, <<"w", "a", "r", "e", "z">> }

\* INTENT_PATTERNS in the order of the dict; each pattern is the phrase between
\* two \b. The patterns "cosa è", "perché" and "perchè" are left out: no text
\* over Alphabet contains their accented letter.
INTENT_PATTERNS ==
    << 
       [intent |-> "how_to",
        patterns |-> << <<"h", "o", "w", " ", "t", "o">>, <<"h", "o", "w", " ", "d", "o", " ", "i">>, <<"h", "o", "w", " ", "c", "a", "n", " ", "i">>, <<"c", "o", "m", "e">> >>],
       [intent |-> "what_is",
        patterns |-> << <<"w", "h", "a", "t", " ", "i", "s">>, <<"w", "h", "a", "t", " ", "a", "r", "e">>, <<"d", "e", "f", "i", "n", "e">>, <<"c", "o", "s", "a", " ", "s", "o", "n", "o">> >>],
       [intent |-> "where",
        patterns |-> << <<"w", "h", "e", "r", "e">>, <<"d", "o", "v", "e">> >>],
       [intent |-> "when",
        patterns |-> << <<"w", "h", "e", "n">>, <<"q", "u", "a", "n", "d", "o">> >>],
       [intent |-> "why",
        patterns |-> << <<"w", "h", "y">> >>],
       [intent |-> "comparison",
        patterns |-> << <<"v", "s">>, <<"v", "e", "r", "s", "u", "s">>, <<"c", "o", "m", "p", "a", "r", "e">>, <<"d", "i", "f", "f", "e", "r", "e", "n", "c", "e">>, <<"c", "o", "n", "f", "r", "o", "n", "t", "a", "r", "e">> >>],
       [intent |-> "best",
        patterns |-> << <<"b", "e", "s", "t">>, <<"t", "o", "p">>, <<"m", "i", "g", "l", "i", "o", "r", "e">>, <<"m", "i", "g", "l", "i", "o", "r", "i">> >>],
       [intent |-> "review",
        patterns |-> << <<"r", "e", "v", "i", "e", "w">>, <<"r", "e", "v", "i", "e", "w", "s">>, <<"r", "e", "c", "e", "n", "s", "i", "o", "n", "e">>, <<"r", "e", "c", "e", "n", "s", "i", "o", "n", "i">> >>],
       [intent |-> "buy",
        patterns |-> << <<"b", "u", "y">>, <<"p", "u", "r", "c", "h", "a", "s", "e">>, <<"p", "r", "i", "c", "e">>, <<"c", "o", "s", "t">>, <<"c", "o", "m", "p", "r", "a", "r", "e">>, <<"p", "r", "e", "z", "z", "o">> >>],
       [intent |-> "tutorial",
        patterns |-> << <<"t", "u", "t", "o", "r", "i", "a", "l">>, <<"g", "u", "i", "d", "e">>, <<"g", "u", "i", "d", "a">> >>] >>

stop_words ==
    { <<"t", "h", "e">>, <<"a">>, <<"a", "n">>, <<"i", "s">>, <<"a", "r", "e">>, <<"i", "n">>,
      <<"o", "n">>, <<"a", "t">>, <<"t", "o">>, <<"f", "o", "r">>, <<"i", "l">>, <<"l", "o">>,
      <<"l", "a">>, <<"i">>, <<"g", "l", "i">>, <<"l", "e">>, <<"d", "i">>, <<"d", "a">>,
      <<"c", "o", "n">>, <<"s", "u">>, <<"p", "e", "r">>, <<"t", "r", "a">>, <<"f", "r", "a">> }

positive_words ==
    { <<"b", "e", "s", "t">>, <<"g", "o", "o", "d">>, <<"g", "r", "e", "a", "t">>,
      <<"e", "x", "c", "e", "l", "l", "e", "n", "t">>, <<"a", "m", "a", "z", "i", "n", "g">>,
      <<"l", "o", "v", "e">>, <<"m", "i", "g", "l", "i", "o", "r", "e">>,
      <<"o", "t", "t", "i", "m", "o">>, <<"e", "c", "c", "e", "l", "l", "e", "n", "t", "e">>,
      <<"f", "a", "n", "t", "a", "s", "t", "i", "c", "o">> }

negative_words ==
    { <<"w", "o", "r", "s", "t">>, <<"b", "a", "d">>,
      <<"t", "e", "r", "r", "i", "b", "l", "e">>, <<"h", "a", "t", "e">>,
      <<"a", "w", "f", "u", "l">>, <<"p", "r", "o", "b", "l", "e", "m">>,
      <<"p", "e", "g", "g", "i", "o", "r", "e">>, <<"b", "r", "u", "t", "t", "o">>,
      <<"t", "e", "r", "r", "i", "b", "i", "l", "e">>,
      <<"p", "r", "o", "b", "l", "e", "m", "a">>, <<"e", "r", "r", "o", "r", "e">> }

\* the maximal runs of characters of s that satisfy In, left to right
Runs(s, In(_)) ==
    LET starts == {i \in 1..Len(s) : In(s[i]) /\ (i = 1 \/ ~In(s[i - 1]))}
        EndOf(i) == CHOOSE j \in i..Len(s) :
                        /\ \A m \in i..j : In(s[m])
                        /\ j = Len(s) \/ ~In(s[j + 1])
        Nth(k) == CHOOSE i \in starts : Cardinality({j \in starts : j < i}) = k - 1
    IN  [k \in 1..Cardinality(starts) |-> SubSeq(s, Nth(k), EndOf(Nth(k)))]

NotBlank(c) == c # " "

\* s.split()
Split(s) == Runs(s, NotBlank)

\* re.findall(r'\b\w+\b', s)
FindWords(s) == Runs(s, IsWordChar)

Range(l) == {l[i] : i \in 1..Len(l)}

\* QueryAnalyzer._extract_keywords
extract_keywords(query) ==
    LET words == FindWords(Lower(query))
        Meaningful(w) == w \notin stop_words /\ Len(w) > 2
        kept == SelectSeq(words, Meaningful)
    IN  SubSeq(kept, 1, Min(10, Len(kept)))

\* re.search(r'\b' + phrase + r'\b', s), for a phrase that begins and ends with a
\* word character
SearchPhrase(s, phrase) ==
    \E i \in 1..(Len(s) - Len(phrase) + 1) :
        /\ SubSeq(s, i, i + Len(phrase) - 1) = phrase
        /\ i = 1 \/ ~IsWordChar(s[i - 1])
        /\ i + Len(phrase) - 1 = Len(s) \/ ~IsWordChar(s[i + Len(phrase)])

\* QueryAnalyzer._detect_intent
detect_intent(query_lower) ==
    LET matching == {k \in 1..Len(INTENT_PATTERNS) :
                        \E j \in 1..Len(INTENT_PATTERNS[k].patterns) :
                            SearchPhrase(query_lower, INTENT_PATTERNS[k].patterns[j])}
    IN  IF matching # {}
        THEN INTENT_PATTERNS[CHOOSE k \in matching : \A m \in matching : k <= m].intent
        ELSE IF Contains(query_lower, <<"?">>) THEN "question"
        ELSE "informational"

\* QueryAnalyzer._assess_complexity
assess_complexity(query) ==
    LET word_count == Len(Split(query))
    IN  IF word_count <= 3 THEN "simple"
        ELSE IF word_count <= 7 THEN "moderate"
        ELSE "complex"

\* QueryAnalyzer._is_technical
is_technical(query_lower) == Range(Split(query_lower)) \cap TECHNICAL_KEYWORDS # {}

\* QueryAnalyzer._is_sensitive
is_sensitive(query_lower) == Range(Split(query_lower)) \cap SENSITIVE_KEYWORDS # {}

\* Where a match of [A-Z][a-z]+(?:\s+[A-Z][a-z]+)*\b that starts at i ends, 0 when
\* there is none. Each repetition is taken when the rest can still match
\* (greedy with backtracking): a capitalised word is given up when the
\* character after it is a word character.
RECURSIVE EntityEnd(_, _)
EntityEnd(s, i) ==
    IF ~(i + 1 <= Len(s) /\ IsUpper(s[i]) /\ IsLower(s[i + 1])) THEN 0
    ELSE LET j == CHOOSE e \in (i + 1)..Len(s) :
                      /\ \A m \in (i + 1)..e : IsLower(s[m])
                      /\ e = Len(s) \/ ~IsLower(s[e + 1])
             blanks == {k \in (j + 1)..Len(s) : \A m \in (j + 1)..k : s[m] = " "}
             further == {EntityEnd(s, k + 1) : k \in blanks} \ {0}
         IN  IF further # {} THEN CHOOSE e \in further : TRUE
             ELSE IF j = Len(s) \/ ~IsWordChar(s[j + 1]) THEN j
             ELSE 0

\* re.findall of the entity pattern: non-overlapping matches, left to right
RECURSIVE FindEntities(_, _)
FindEntities(s, i) ==
    IF i > Len(s) THEN <<>>
    ELSE IF (i = 1 \/ ~IsWordChar(s[i - 1])) /\ EntityEnd(s, i) # 0
         THEN <<SubSeq(s, i, EntityEnd(s, i))>> \o FindEntities(s, EntityEnd(s, i) + 1)
         ELSE FindEntities(s, i + 1)

Reverse(l) == [i \in 1..Len(l) |-> l[Len(l) + 1 - i]]

\* list(set(...)): the iteration order of a set of strings follows their hashes,
\* which are fixed for the life of the process (hash_seed) and differ between
\* processes; two orders stand for the orders a process can have.
HashSeeds == {0, 1}

Ascending(S) ==
    [k \in 1..Cardinality(S) |->
        CHOOSE x \in S : Cardinality({y \in S : StrLess(y, x)}) = k - 1]

ListOfSet(S, hash_seed) == IF hash_seed = 0 THEN Ascending(S) ELSE Reverse(Ascending(S))

\* QueryAnalyzer._extract_entities
extract_entities(query, hash_seed) ==
    LET entities == ListOfSet(Range(FindEntities(query, 1)), hash_seed)
    IN  SubSeq(entities, 1, Min(5, Len(entities)))

\* QueryAnalyzer._suggest_sources
suggest_sources(technical, intent) ==
    <<"duckduckgo">>
        \o (IF technical THEN <<"clearnet">> ELSE <<>>)
        \o (IF intent \in {"tutorial", "how_to"} THEN <<"clearnet">> ELSE <<>>)

\* QueryAnalyzer._detect_sentiment
detect_sentiment(query_lower) ==
    LET words == Range(Split(query_lower))
    IN  IF words \cap positive_words # {} THEN "positive"
        ELSE IF words \cap negative_words # {} THEN "negative"
        ELSE "neutral"

\* langdetect.detect, called without DetectorFactory.seed: the detector draws
\* random samples of the text, so the language it reports for a short or
\* ambiguous text can differ from one call to the next. A text without a
\* letter has no features and raises LangDetectException.
DetectedLanguages == {"en", "it"}

HasLetter(s) == \E i \in 1..Len(s) : IsUpper(s[i]) \/ IsLower(s[i])

\* QueryAnalyzer._detect_language: the values it can return for a query
detect_language(query) ==
    IF HasLetter(query) THEN DetectedLanguages ELSE {"unknown"}

\* QueryAnalyzer.analyze, for the language the detector reported
analyze(query, language, hash_seed) ==
    LET query_lower == Lower(query)
        intent == detect_intent(query_lower)
        technical == is_technical(query_lower)
    IN  [query |-> query,
         language |-> language,
         intent |-> intent,
         complexity |-> assess_complexity(query),
         keywords |-> extract_keywords(query),
         entities |-> extract_entities(query, hash_seed),
         suggested_sources |-> suggest_sources(technical, intent),
         suggested_mode |-> IF ~technical THEN "aggregation" ELSE "crawling",
         is_technical |-> technical,
         is_sensitive |-> is_sensitive(query_lower),
         sentiment |-> detect_sentiment(query_lower)]

-----------------------------------------------------------------------------
(* sources/duckduckgo.py and the adapter registry of main.py *)

DDG == <<"d", "u", "c", "k", "d", "u", "c", "k", "g", "o">>

\* SUPPORTED_SOURCES of main.py
SUPPORTED_SOURCES == {DDG}

\* Three more adapters registered next to duckduckgo, as the fan-out scenario of
\* the design asks for: "a" and "c" always succeed with two results, "b" always fails.
StubOkA == <<"a">>
StubBad == <<"b">>
StubOkC == <<"c">>
StubSources == {StubOkA, StubBad, StubOkC}

Registry == SUPPORTED_SOURCES \cup StubSources

\* retry_count: int = 2
retry_count == 2

Hit(title, url, snippet, source, language) ==
    [title |-> title, url |-> url, snippet |-> snippet, source |-> source,
     language |-> language, score |-> 10]

\* the .result nodes of the page DuckDuckGo serves: the second is the first again
\* under another spelling of its URL
DdgPage(language) ==
    << Hit(<<"Q", " ", "a", " ", "b">>,
           <<"h", "t", "t", "p", "s", ":", "/", "/", "x", ".", "o", "r", "g", "/">>,
           <<"a">>, DDG, language),
       Hit(<<"b">>,
           <<"h", "t", "t", "p", ":", "/", "/", "w", "w", "w", ".", "X", ".", "o", "r", "g">>,
           <<"b">>, DDG, language),
       Hit(<<"q", " ", "q", " ", "a", " ", "b">>,
           <<"g", "i", "t", "h", "u", "b", ".", "c", "o", "m", "/", "q">>,
           <<"q", " ", "b">>, DDG, language) >>

\* the answers of the network to the attempts of one fetch, in order (only as many
\* as the fetch makes are read): a page with results ("html"), a page without,
\* asyncio.TimeoutError, aiohttp.ClientError, or a body that response.text() cannot decode
NetTraces ==
    { <<"timeout", "html", "html">>,
      <<"client_error", "timeout", "html_no_results">>,
      <<"timeout", "timeout", "timeout">>,
      <<"timeout", "client_error", "client_error">>,
      <<"client_error", "decode_error", "html">> }

Prefix(l, n) == SubSeq(l, 1, Min(n, Len(l)))

\* search_duckduckgo from attempt number `attempt` on: the retry loop and the parse;
\* attempts is the number of requests sent when the call ends
RECURSIVE ddg_attempts(_, _, _, _)
ddg_attempts(languages, max_results, trace, attempt) ==
    LET answer == trace[attempt + 1]
        primary_language == IF languages # <<>> THEN languages[1] ELSE <<"u", "n", "k", "n", "o", "w", "n">>
    IN  CASE answer = "html" ->
                [state |-> "ok", results |-> Prefix(DdgPage(primary_language), max_results),
                 attempts |-> attempt + 1]
          [] answer = "html_no_results" ->
                [state |-> "ok", results |-> <<>>, attempts |-> attempt + 1]
          [] answer = "timeout" ->
                IF attempt = retry_count
                THEN [state |-> "failed", error |-> "DuckDuckGo request timed out after retries",
                      attempts |-> attempt + 1]
                ELSE ddg_attempts(languages, max_results, trace, attempt + 1)
          [] answer = "client_error" ->
                IF attempt = retry_count
                THEN [state |-> "failed", error |-> "DuckDuckGo request failed: client error",
                      attempts |-> attempt + 1]
                ELSE ddg_attempts(languages, max_results, trace, attempt + 1)
          [] OTHER ->
                [state |-> "failed", error |-> "codec can't decode byte", attempts |-> attempt + 1]

search_duckduckgo(languages, max_results, trace) == ddg_attempts(languages, max_results, trace, 0)

StubHit(name, n, language) ==
    Hit(<<"q", " ", name>>, <<name, IntToStr(n)[1]>>, <<"q">>, <<name>>, language)

\* the stub adapters: they do not look at the network
StubAdapter(source, languages) ==
    IF source = StubBad
    THEN [state |-> "failed", error |-> "stub failure"]
    ELSE [state |-> "ok",
          results |-> <<StubHit(source[1], 1, languages[1]), StubHit(source[1], 2, languages[1])>>]

\* the outcome of the task created for `source`
RunAdapter(source, request, trace) ==
    IF source = DDG
    THEN search_duckduckgo(request.languages, request.max_results, trace)
    ELSE StubAdapter(source, request.languages)

-----------------------------------------------------------------------------
(* The cache API driven directly: get, set and clear with arguments drawn *)
(* from small sets, and the clock.                                         *)

HalfTTL == ttl_seconds \div 2

ApiQueries == {<<"q">>}
ApiSourceLists == {<<<<"a">>, <<"b">>>>, <<<<"b">>, <<"a">>>>, <<<<"a">>>>}
ApiLanguageLists == {<<<<"e", "n">>, <<"i", "t">>>>, <<<<"i", "t">>, <<"e", "n">>>>}
ApiLimits == {5}
ApiValues == {"v1", "v2"}

ApiArgs == [query: ApiQueries, sources: ApiSourceLists, languages: ApiLanguageLists,
            max_results: ApiLimits]

ApiKeys == [a \in ApiArgs |-> generate_key(a.query, a.sources, a.languages, a.max_results)]

KeyOf(a) == ApiKeys[a]

\* the request slots of the event loop; none is in use while the cache API is driven
Slots == {1, 2}

Idle == [pc |-> "idle"]

InitCache ==
    /\ now = 0
    /\ cache = <<>>
    /\ hits = 0
    /\ misses = 0
    /\ heap = <<>>
    /\ calls = [s \in Slots |-> Idle]
    /\ log = <<>>
    /\ nSearch = 0
    /\ db = None
    /\ workload = None
    /\ written = <<>>
    /\ lastOp = [op |-> "none"]
    /\ calc = [fn |-> "none"]

searchVars == <<heap, calls, log, nSearch, db, workload, calc>>

\* the clock moves on (it never runs backwards)
Tick ==
    /\ now + HalfTTL <= MaxTicks * HalfTTL
    /\ now' = now + HalfTTL
    /\ UNCHANGED <<cache, hits, misses, heap, calls, log, nSearch, db, workload, written, lastOp, calc>>

ApiGet(a) ==
    LET key == KeyOf(a) IN
    /\ hits + misses < MaxGets
    /\ cache' = CacheAfterGet(cache, key, now)
    /\ hits' = IF GetHit(cache, key, now) THEN hits + 1 ELSE hits
    /\ misses' = IF GetHit(cache, key, now) THEN misses ELSE misses + 1
    /\ lastOp' = [op |-> "get", args |-> a, ret |-> GetValue(cache, key, now), at |-> now]
    /\ UNCHANGED <<now, written, searchVars>>

ApiSet(a, v) ==
    LET key == KeyOf(a) IN
    /\ cache' = CacheAfterSet(cache, key, v, now)
    /\ written' = Put(written, key, [value |-> v, at |-> now, args |-> a])
    /\ lastOp' = [op |-> "set"]
    /\ UNCHANGED <<now, hits, misses, searchVars>>

\* a clear that empties the map and leaves the counters
ApiClearKeepingCounters ==
    /\ cache # <<>> \/ hits + misses > 0
    /\ cache' = <<>>
    /\ written' = <<>>
    /\ lastOp' = [op |-> "clear"]
    /\ UNCHANGED <<now, hits, misses, searchVars>>

\* CacheService.clear
ApiClear ==
    /\ cache # <<>> \/ hits + misses > 0
    /\ cache' = <<>>
    /\ hits' = 0
    /\ misses' = 0
    /\ written' = <<>>
    /\ lastOp' = [op |-> "clear"]
    /\ UNCHANGED <<now, searchVars>>

NextCache ==
    \/ Tick
    \/ \E a \in ApiArgs : ApiGet(a)
    \/ \E a \in ApiArgs, v \in ApiValues : ApiSet(a, v)
    \/ ApiClear

SpecCache == InitCache /\ [][NextCache]_vars

-----------------------------------------------------------------------------
(* Claims about the cache API *)

SameMembers(l1, l2) ==
    /\ Len(l1) = Len(l2)
    /\ \A x \in {l1[i] : i \in 1..Len(l1)} \cup {l2[i] : i \in 1..Len(l2)} :
          Cardinality({i \in 1..Len(l1) : l1[i] = x}) = Cardinality({i \in 1..Len(l2) : l2[i] = x})

\* the last set whose arguments are a reordering of a's, if any is still in force
SetsPermuting(a) ==
    {k \in DOMAIN written :
        /\ written[k].args.query = a.query
        /\ written[k].args.max_results = a.max_results
        /\ SameMembers(written[k].args.sources, a.sources)
        /\ SameMembers(written[k].args.languages, a.languages)}

\* C1: a get whose sources and languages are permutations of those of the set
\* that last stored under the same query and limit, issued within the TTL of that
\* set, returns the value that set stored.
C1_PermutationInvariantKey ==
    lastOp.op = "get" =>
        \A k \in SetsPermuting(lastOp.args) :
            lastOp.at < written[k].at + ttl_seconds => lastOp.ret = written[k].value

C1_Witness ==
    /\ lastOp.op = "get"
    /\ \E k \in SetsPermuting(lastOp.args) :
          /\ written[k].args.sources # lastOp.args.sources
          /\ written[k].args.languages # lastOp.args.languages
          /\ lastOp.at < written[k].at + ttl_seconds
          /\ lastOp.ret = written[k].value

\* C2: a get of a key whose last set happened at T (no clear since) returns
\* that value when issued before T + TTL and returns absent from T + TTL on.
C2_TTL ==
    lastOp.op = "get" /\ KeyOf(lastOp.args) \in DOMAIN written =>
        LET w == written[KeyOf(lastOp.args)] IN
        IF lastOp.at < w.at + ttl_seconds THEN lastOp.ret = w.value ELSE lastOp.ret = None

C2_Witness ==
    /\ lastOp.op = "get"
    /\ KeyOf(lastOp.args) \in DOMAIN written
    /\ lastOp.at = written[KeyOf(lastOp.args)].at + ttl_seconds
    /\ lastOp.ret = None
    /\ hits > 0

\* the steps of the cache API, told apart by what they leave in lastOp (a tick
\* leaves lastOp alone and moves the clock)
GetStep == now' = now /\ lastOp'.op = "get" /\ hits' + misses' # hits + misses

SetStep == now' = now /\ lastOp'.op = "set"

ClearStep == now' = now /\ lastOp'.op = "clear"

\* C24: a get that finds its entry with an age of TTL or more returns absent,
\* adds one to the miss counter and nothing to the hit counter, and removes
\* that entry and no other.
C24_StaleGetEvicts ==
    [][LET key == KeyOf(lastOp'.args) IN
       (GetStep /\ key \in DOMAIN cache /\ now - cache[key].timestamp >= ttl_seconds) =>
           /\ lastOp'.ret = None
           /\ misses' = misses + 1
           /\ hits' = hits
           /\ cache' = Remove(cache, key)]_vars

\* the only get since the entries were written has found its entry expired and
\* removed it, and another expired entry is still in the map
C24_Witness ==
    /\ lastOp.op = "get" /\ lastOp.ret = None
    /\ hits + misses = 1
    /\ KeyOf(lastOp.args) \in DOMAIN written \ DOMAIN cache
    /\ lastOp.at >= written[KeyOf(lastOp.args)].at + ttl_seconds
    /\ \E k \in DOMAIN cache : now - cache[k].timestamp >= ttl_seconds

\* C25: every get adds exactly 1 to exactly one of hits and misses, to hits
\* exactly when it returns a value; set changes neither, nor does the passing
\* of time; clear empties the map and puts both counters at 0. Hence between
\* clears both counters never decrease and their sum is the number of gets.
C25_Counters ==
    [][/\ GetStep =>
            IF lastOp'.ret # None
            THEN hits' = hits + 1 /\ misses' = misses
            ELSE hits' = hits /\ misses' = misses + 1
       /\ SetStep => hits' = hits /\ misses' = misses
       /\ now' # now => hits' = hits /\ misses' = misses
       /\ ClearStep => cache' = <<>> /\ hits' = 0 /\ misses' = 0
       /\ (hits' < hits \/ misses' < misses) => ClearStep
       /\ hits' + misses' > hits + misses => GetStep /\ hits' + misses' = hits + misses + 1]_vars

\* a get has hit and a get has missed, with no clear in between
C25_Witness ==
    /\ lastOp.op = "get"
    /\ hits = 1 /\ misses = 1
    /\ cache # <<>>

\* C30: the expiry of an entry is fixed when it is written: whatever gets have
\* been made, an entry in the map has the value and the timestamp of the last
\* set of its key, and a get returns that value exactly when it comes before
\* that timestamp plus TTL.
C30_ExpiryFixedAtWrite ==
    /\ \A k \in DOMAIN cache :
          /\ k \in DOMAIN written
          /\ cache[k].value = written[k].value
          /\ cache[k].timestamp = written[k].at
    /\ lastOp.op = "get" /\ KeyOf(lastOp.args) \in DOMAIN written =>
          (lastOp.ret # None <=> lastOp.at < written[KeyOf(lastOp.args)].at + ttl_seconds)

\* an entry written earlier has been read twice and still has the timestamp of
\* its write
C30_Witness ==
    /\ lastOp.op = "get" /\ lastOp.ret # None
    /\ hits = 2
    /\ cache[KeyOf(lastOp.args)].timestamp < lastOp.at

-----------------------------------------------------------------------------
(* main.py: POST /api/search *)

Unregistered == <<"x">>
\* one identifier that spells two, joined the way the cache key joins them
DdgCommaX == DDG \o <<",">> \o Unregistered

English == <<"e", "n">>

Request(sources, page, page_size, mode) ==
    [query |-> <<"q">>, mode |-> mode, languages |-> <<English>>, sources |-> sources,
     max_results |-> 3, page |-> page, page_size |-> page_size]

\* The runs explored: each one serves the requests of one family of clients.
Workloads ==
    { \* one client paging through the results of one query
      [name |-> "paging", slots |-> {1}, cancels |-> FALSE,
       requests |-> {Request(<<DDG>>, p, 1, m) : p \in {1, 2}, m \in {"aggregation", "crawling"}}],
      \* clients naming sources with and without an adapter
      [name |-> "sources", slots |-> {1}, cancels |-> FALSE,
       requests |-> {Request(l, 1, 2, "aggregation") :
                        l \in {<<>>, <<Unregistered>>, <<DDG, Unregistered>>, <<DdgCommaX>>}}],
      \* three adapters, one of them failing
      [name |-> "fanout", slots |-> {1}, cancels |-> FALSE,
       requests |-> {Request(<<StubOkA, StubBad, StubOkC>>, 1, z, "aggregation") : z \in {2, 4}}],
      \* two clients sending the same request at once
      [name |-> "concurrent", slots |-> {1, 2}, cancels |-> FALSE,
       requests |-> {Request(<<DDG>>, 1, 2, "aggregation")}],
      \* a client that may go away before it is answered
      [name |-> "disconnect", slots |-> {1}, cancels |-> TRUE,
       requests |-> {Request(<<StubOkA, StubOkC>>, 1, 2, "aggregation")}] }

\* the cache key of every request of every workload (main.py lines 93-98)
KeyTable ==
    [r \in UNION {w.requests : w \in Workloads} |->
        generate_key(r.query, r.sources, r.languages, r.max_results)]

RequestKey(r) == KeyTable[r]

\* handlers that take every requested source, with an adapter or without
RECURSIVE handlers_unchecked(_)
handlers_unchecked(sources) ==
    IF sources = <<>> THEN <<>>
    ELSE LET head == handlers_unchecked(SubSeq(sources, 1, Len(sources) - 1))
             last == sources[Len(sources)]
         IN  IF ~\E i \in 1..Len(head) : head[i] = last
             THEN Append(head, last)
             ELSE head

\* handlers: the requested sources that have an adapter, each once, in request order
RECURSIVE Handlers(_)
Handlers(sources) ==
    IF sources = <<>> THEN <<>>
    ELSE LET head == Handlers(SubSeq(sources, 1, Len(sources) - 1))
             last == sources[Len(sources)]
         IN  IF last \in Registry /\ ~\E i \in 1..Len(head) : head[i] = last
             THEN Append(head, last)
             ELSE head

\* a slice that takes the element at end_idx too
slice_through_end(l, start_idx, end_idx) ==
    IF start_idx >= Len(l) THEN <<>> ELSE SubSeq(l, start_idx + 1, Min(end_idx + 1, Len(l)))

\* results[start_idx:end_idx]
Slice(l, start_idx, end_idx) ==
    IF start_idx >= Len(l) THEN <<>> ELSE SubSeq(l, start_idx + 1, Min(end_idx, Len(l)))

\* a classification that calls a response with errors partial whatever it collected
status_ignoring_results(errors, results) ==
    IF DOMAIN errors # {} THEN "partial" ELSE "completed"

\* status (main.py lines 149-153)
status_of(errors, results) ==
    IF DOMAIN errors # {} /\ results # <<>> THEN "partial"
    ELSE IF DOMAIN errors # {} /\ results = <<>> THEN "failed"
    ELSE "completed"

\* response_data as assembled (main.py lines 143-172)
response_data(request, ranked, errors, duration_ms) ==
    LET total_results == Len(ranked)
        start_idx == (request.page - 1) * request.page_size
        end_idx == start_idx + request.page_size
        paginated_results == Slice(ranked, start_idx, end_idx)
    IN  [search_id |-> None,
         query |-> request.query,
         mode |-> request.mode,
         status |-> status_of(errors, ranked),
         requested_sources |-> request.sources,
         errors |-> errors,          \* errors or None: the empty map stands for None
         results_count |-> Len(paginated_results),
         total_results |-> total_results,
         page |-> request.page,
         page_size |-> request.page_size,
         total_pages |-> (total_results + request.page_size - 1) \div request.page_size,
         results |-> paginated_results,
         duration_ms |-> duration_ms,
         from_cache |-> FALSE]

\* a cache-hit path that returns the cached dict as it is
unmarked(d) == d

\* the cache-hit markers (main.py lines 102-103)
mark_cache_hit(d) == Put(Put(d, "from_cache", TRUE), "cache_hit", TRUE)

\* a join that stops waiting as soon as one fetch has failed
joined_on_first_failure(call) ==
    call.idx > Len(call.order) \/ DOMAIN call.errors # {}

\* the for loop over tasks has awaited every task (main.py lines 130-135)
joined(call) == call.idx > Len(call.order)

\* a loop that drops what it collected so far when a fetch fails
collect_dropping(call) ==
    LET source == call.order[call.idx]
        task == call.tasks[source]
    IN  IF task.state = "ok"
        THEN [call EXCEPT !.results = call.results \o task.results, !.idx = call.idx + 1]
        ELSE [call EXCEPT !.results = <<>>, !.errors = Put(call.errors, source, task.error),
                          !.idx = call.idx + 1]

\* one turn of the for loop: the awaited task has finished (main.py lines 131-135)
collect(call) ==
    LET source == call.order[call.idx]
        task == call.tasks[source]
    IN  IF task.state = "ok"
        THEN [call EXCEPT !.results = call.results \o task.results, !.idx = call.idx + 1]
        ELSE [call EXCEPT !.errors = Put(call.errors, source, task.error), !.idx = call.idx + 1]

\* the dicts something still refers to
Live(h, c, cs) ==
    LET refs == {c[k].value : k \in DOMAIN c} \cup {cs[s].resp : s \in {s \in Slots : cs[s].pc # "idle"}}   \* resp = 0: no dict yet
    IN  [id \in DOMAIN h \cap refs |-> h[id]]

\* what the caller of a returning call receives, and what the call had done
Returned(call, kind, body) ==
    [n |-> call.n, request |-> call.request, kind |-> kind, body |-> body, call |-> call,
     alone |-> /\ Len(log) = call.begun
               /\ \A s \in Slots : calls[s].pc # "idle" => calls[s].n = call.n]

\* the calls that have stored a response in the cache so far: those that have
\* returned and those still running
StoredReturned == {i \in 1..Len(log) : log[i].call.store_seq > 0}
StoredRunning == {s \in Slots : calls[s].pc # "idle" /\ calls[s].store_seq > 0}

\* the number of cache.set calls made under key so far
StoresTo(key) ==
      Cardinality({i \in StoredReturned : log[i].call.key = key})
    + Cardinality({s \in StoredRunning : calls[s].key = key})

\* key is the cache key of the request; seen, store_seq, assembled and persist
\* record the history of the call: the stores under its key made before its
\* lookup, the rank of its own store among all stores, the response as
\* assembled, and how the persistence step went
NewCall(r) ==
    [pc |-> "start", n |-> nSearch + 1, request |-> r, key |-> RequestKey(r),
     start |-> now, begun |-> Len(log),
     hit |-> FALSE, looked_up |-> FALSE, order |-> <<>>, tasks |-> <<>>, idx |-> 1,
     results |-> <<>>, errors |-> <<>>, ranked |-> <<>>, resp |-> 0, set_at |-> -1,
     pending_at_join |-> {}, seen |-> StoresTo(KeyTable[r]), store_seq |-> 0,
     assembled |-> <<>>, persist |-> "none"]

MayStart(c, r) ==
    /\ c \in workload.slots
    /\ calls[c].pc = "idle"
    /\ \A d \in workload.slots : d < c => calls[d].pc # "idle"
    /\ nSearch < MaxSearches
    /\ r \in workload.requests

cacheApiVars == <<written, lastOp, calc>>

\* the clock as the search runs see it: a whole TTL passes at a time
TickTTL ==
    /\ now + ttl_seconds <= MaxTicks * HalfTTL
    /\ now' = now + ttl_seconds
    /\ UNCHANGED <<cache, hits, misses, heap, calls, log, nSearch, db, workload, cacheApiVars>>

Init ==
    /\ now = 0
    /\ cache = <<>>
    /\ hits = 0
    /\ misses = 0
    /\ heap = <<>>
    /\ calls = [s \in Slots |-> Idle]
    /\ log = <<>>
    /\ nSearch = 0
    /\ db \in {[up |-> u, searches |-> {}, results |-> {}] : u \in BOOLEAN}
    /\ workload \in Workloads
    /\ written = <<>>
    /\ lastOp = [op |-> "none"]
    /\ calc = [fn |-> "none"]

\* search, lines 89-90: no source named
SearchNoSources(c, r) ==
    /\ MayStart(c, r)
    /\ r.sources = <<>>
    /\ nSearch' = nSearch + 1
    /\ log' = Append(log, Returned(NewCall(r), "http_400", "At least one source must be selected."))
    /\ UNCHANGED <<now, cache, hits, misses, heap, calls, db, workload, cacheApiVars>>

\* search, lines 92-104: the lookup hits
SearchCacheHit(c, r) ==
    LET key == RequestKey(r)
        id == GetValue(cache, key, now)
        d == mark_cache_hit(heap[id].dict)
        call == [NewCall(r) EXCEPT !.hit = TRUE, !.looked_up = TRUE, !.resp = id,
                                   !.ranked = heap[id].ranked]
    IN  /\ MayStart(c, r)
        /\ r.sources # <<>>
        /\ GetHit(cache, key, now)
        /\ nSearch' = nSearch + 1
        /\ hits' = hits + 1
        /\ cache' = CacheAfterGet(cache, key, now)
        /\ heap' = [heap EXCEPT ![id].dict = d]
        /\ log' = Append(log, Returned(call, "response", d))
        /\ UNCHANGED <<now, misses, calls, db, workload, cacheApiVars>>

\* search, lines 92-114: the lookup misses and no requested source has an adapter
SearchUnsupported(c, r) ==
    LET key == RequestKey(r)
        call == [NewCall(r) EXCEPT !.looked_up = TRUE]
    IN  /\ MayStart(c, r)
        /\ r.sources # <<>>
        /\ ~GetHit(cache, key, now)
        /\ Handlers(r.sources) = <<>>
        /\ nSearch' = nSearch + 1
        /\ misses' = misses + 1
        /\ cache' = CacheAfterGet(cache, key, now)
        /\ heap' = Live(heap, cache', calls)
        /\ log' = Append(log, Returned(call, "http_400", "Selected sources are not supported."))
        /\ UNCHANGED <<now, hits, calls, db, workload, cacheApiVars>>

\* search, lines 92-132: the lookup misses, one task per handler is created and
\* the coroutine suspends on the first
SearchDispatch(c, r) ==
    LET key == RequestKey(r)
        order == Handlers(r.sources)
        call == [NewCall(r) EXCEPT !.pc = "await", !.looked_up = TRUE, !.order = order,
                    !.tasks = [s \in {order[i] : i \in 1..Len(order)} |-> [state |-> "pending"]]]
    IN  /\ MayStart(c, r)
        /\ r.sources # <<>>
        /\ ~GetHit(cache, key, now)
        /\ order # <<>>
        /\ nSearch' = nSearch + 1
        /\ misses' = misses + 1
        /\ cache' = CacheAfterGet(cache, key, now)
        /\ calls' = [calls EXCEPT ![c] = call]
        /\ heap' = Live(heap, cache', calls')
        /\ UNCHANGED <<now, hits, log, db, workload, cacheApiVars>>

\* a fetch task runs to its end: results, or the exception it raises
FetchResolve(c, source, trace) ==
    /\ calls[c].pc = "await"
    /\ source \in DOMAIN calls[c].tasks
    /\ calls[c].tasks[source].state = "pending"
    /\ calls' = [calls EXCEPT ![c].tasks[source] = RunAdapter(source, calls[c].request, trace)]
    /\ UNCHANGED <<now, cache, hits, misses, heap, log, nSearch, db, workload, cacheApiVars>>

\* search, lines 130-135: the awaited task is done
AwaitTask(c) ==
    /\ calls[c].pc = "await"
    /\ ~joined(calls[c])
    /\ calls[c].tasks[calls[c].order[calls[c].idx]].state # "pending"
    /\ calls' = [calls EXCEPT ![c] = collect(calls[c])]
    /\ UNCHANGED <<now, cache, hits, misses, heap, log, nSearch, db, workload, cacheApiVars>>

\* search, lines 137-186: dedup, rank, paginate, assemble, cache.set; then either
\* the database is not connected and the call returns (line 211), or the
\* coroutine suspends on insert_one (line 197)
\* a handler that caches only the responses whose status is completed
store_completed_only(c, key, d, id, t) ==
    IF d.status = "completed" THEN CacheAfterSet(c, key, id, t) ELSE c

\* search, lines 175-181: the response is stored whatever its status
store_response(c, key, d, id, t) == CacheAfterSet(c, key, id, t)

Assemble(c) ==
    LET call == calls[c]
        r == call.request
        ranked == rank_results(deduplicate_results(call.results), r.query)
        d == response_data(r, ranked, call.errors, (now - call.start) * 1000)
        id == call.n
        done == [call EXCEPT !.ranked = ranked, !.resp = id, !.set_at = now, !.pc = "insert_one",
                   !.pending_at_join = {s \in DOMAIN call.tasks : call.tasks[s].state = "pending"},
                   !.store_seq = Cardinality(StoredReturned) + Cardinality(StoredRunning) + 1,
                   !.assembled = d]
        heap1 == Put(heap, id, [dict |-> d, ranked |-> ranked, stored |-> d])
    IN  /\ call.pc = "await"
        /\ joined(call)
        /\ cache' = store_response(cache, RequestKey(r), d, id, now)
        /\ IF db.up
           THEN /\ calls' = [calls EXCEPT ![c] = done]
                /\ log' = log
           ELSE /\ calls' = [calls EXCEPT ![c] = Idle]
                /\ log' = Append(log, Returned(done, "response", d))
        /\ heap' = Live(heap1, cache', calls')
        /\ UNCHANGED <<now, hits, misses, nSearch, db, workload, cacheApiVars>>

\* a handler that reports the failure of a persistence write in the response
failed_on_insert_failure(d) == [d EXCEPT !.status = "failed"]

\* except Exception as e: print(...) (main.py lines 208-209): the response stays
\* as it is
after_insert_failure(d) == d

\* search, lines 197-211: insert_one has finished; on success the id is written
\* into the response and, if there are results, the coroutine suspends on
\* insert_many (line 207); otherwise the call returns
PersistSearch(c, ok) ==
    LET call == [calls[c] EXCEPT !.persist = IF ok THEN "search_written" ELSE "search_failed"]
        d == IF ok THEN [heap[call.resp].dict EXCEPT !.search_id = ToString(call.n)]
             ELSE after_insert_failure(heap[call.resp].dict)
        heap1 == [heap EXCEPT ![call.resp].dict = d]
    IN  /\ call.pc = "insert_one"
        /\ db' = IF ok
                 THEN [db EXCEPT !.searches = @ \cup
                          {[id |-> call.n, query |-> call.request.query,
                            status |-> status_of(call.errors, call.ranked),
                            results_count |-> Len(call.ranked)]}]
                 ELSE db
        /\ IF ok /\ call.ranked # <<>>
           THEN /\ calls' = [calls EXCEPT ![c] = [call EXCEPT !.pc = "insert_many"]]
                /\ log' = log
           ELSE /\ calls' = [calls EXCEPT ![c] = Idle]
                /\ log' = Append(log, Returned(call, "response", d))
        /\ heap' = Live(heap1, cache, calls')
        /\ UNCHANGED <<now, cache, hits, misses, nSearch, workload, cacheApiVars>>

\* search, lines 207-211: insert_many has finished, the call returns
PersistResults(c, ok) ==
    LET call == [calls[c] EXCEPT !.persist = IF ok THEN "results_written" ELSE "results_failed"]
        d == IF ok THEN heap[call.resp].dict ELSE after_insert_failure(heap[call.resp].dict)
        heap1 == [heap EXCEPT ![call.resp].dict = d]
    IN  /\ call.pc = "insert_many"
        /\ db' = IF ok THEN [db EXCEPT !.results = @ \cup {call.n}] ELSE db
        /\ calls' = [calls EXCEPT ![c] = Idle]
        /\ log' = Append(log, Returned(call, "response", d))
        /\ heap' = Live(heap1, cache, calls')
        /\ UNCHANGED <<now, cache, hits, misses, nSearch, workload, cacheApiVars>>

\* the search coroutine is cancelled while it is suspended on a fetch task
\* (line 132): CancelledError is raised at the await and the cancellation is
\* passed on to the task awaited; the tasks created at lines 118-125 and not
\* awaited yet are left as they are
Cancel(c) ==
    LET call == calls[c]
        awaited == call.order[call.idx]
        tasks == IF call.tasks[awaited].state = "pending"
                 THEN [call.tasks EXCEPT ![awaited] = [state |-> "cancelled"]]
                 ELSE call.tasks
        gone == [call EXCEPT !.tasks = tasks]
    IN  /\ workload.cancels
        /\ call.pc = "await"
        /\ ~joined(call)
        /\ calls' = [calls EXCEPT ![c] = Idle]
        /\ log' = Append(log, Returned(gone, "cancelled", "CancelledError"))
        /\ heap' = Live(heap, cache, calls')
        /\ UNCHANGED <<now, cache, hits, misses, nSearch, db, workload, cacheApiVars>>

\* a task left behind by a cancelled call runs to its end; nobody awaits it
OrphanFetch(i, source, trace) ==
    /\ i \in 1..Len(log)
    /\ log[i].kind = "cancelled"
    /\ source \in DOMAIN log[i].call.tasks
    /\ log[i].call.tasks[source].state = "pending"
    /\ log' = [log EXCEPT ![i].call.tasks[source] =
                  [state |-> "completed_after_cancel",
                   outcome |-> RunAdapter(source, log[i].request, trace)]]
    /\ UNCHANGED <<now, cache, hits, misses, heap, calls, nSearch, db, workload, cacheApiVars>>

Next ==
    \/ TickTTL
    \/ \E c \in Slots, r \in workload.requests : SearchNoSources(c, r)
    \/ \E c \in Slots, r \in workload.requests : SearchCacheHit(c, r)
    \/ \E c \in Slots, r \in workload.requests : SearchUnsupported(c, r)
    \/ \E c \in Slots, r \in workload.requests : SearchDispatch(c, r)
    \/ \E c \in Slots, s \in Registry, t \in NetTraces : FetchResolve(c, s, t)
    \/ \E c \in Slots : AwaitTask(c)
    \/ \E c \in Slots : Assemble(c)
    \/ \E c \in Slots, ok \in BOOLEAN : PersistSearch(c, ok)
    \/ \E c \in Slots, ok \in BOOLEAN : PersistResults(c, ok)
    \/ \E c \in Slots : Cancel(c)
    \/ \E i \in 1..MaxSearches, s \in Registry, t \in NetTraces : OrphanFetch(i, s, t)

Spec == Init /\ [][Next]_vars

-----------------------------------------------------------------------------
(* Claims about search *)

Entries == 1..Len(log)

Responses == {i \in Entries : log[i].kind = "response"}

\* the responses computed by the call that returns them (the lookup missed)
Fresh == {i \in Responses : ~log[i].call.hit}

Active == {c \in Slots : calls[c].pc # "idle"}

\* C3: every response, fresh or cached, carries the page, page_size and mode of
\* the request it answers, and its results are the slice of the ranked sequence
\* that this page and page_size select.
C3_ResponseEchoesRequestPage ==
    \A i \in Responses :
        LET r == log[i].request
            b == log[i].body
        IN  /\ b.page = r.page
            /\ b.page_size = r.page_size
            /\ b.mode = r.mode
            /\ b.results = Slice(log[i].call.ranked, (r.page - 1) * r.page_size, r.page * r.page_size)

\* C4: a request naming no source, or only sources without an adapter, is
\* rejected with a client error, dispatches no fetch and stores nothing.
C4_UnsupportedAlwaysRejected ==
    \A i \in Entries :
        log[i].request.sources = <<>> \/ Handlers(log[i].request.sources) = <<>> =>
            /\ log[i].kind = "http_400"
            /\ log[i].call.tasks = <<>>
            /\ log[i].call.set_at = -1

\* the sources of a call whose fetch has been awaited, by outcome, in dispatch order
Awaited(call) == 1..(call.idx - 1)

FailedSources(call) == {call.order[j] : j \in {j \in Awaited(call) : call.tasks[call.order[j]].state = "failed"}}

RECURSIVE ConcatOk(_, _)
ConcatOk(call, n) ==
    IF n = 0 THEN <<>>
    ELSE ConcatOk(call, n - 1) \o
         (IF call.tasks[call.order[n]].state = "ok" THEN call.tasks[call.order[n]].results ELSE <<>>)

Isolated(call) ==
    /\ DOMAIN call.errors = FailedSources(call)
    /\ call.results = ConcatOk(call, call.idx - 1)

\* three fetches, one failed, two succeeded with two results each, the four URLs distinct
OneOfThreeFailed(call) ==
    /\ Len(call.order) = 3
    /\ Cardinality(FailedSources(call)) = 1
    /\ \A s \in DOMAIN call.tasks : call.tasks[s].state = "ok" => Len(call.tasks[s].results) = 2
    /\ Len(call.results) = 4
    /\ Cardinality({normalize_url(call.results[j].url) : j \in 1..4}) = 4

\* C5 as claimed: the error map holds exactly the failed sources, the collected
\* results are those of the succeeding sources in dispatch order, and with one
\* of three sources failing and two results from each of the others the response
\* is partial, has one error and a results_count of 4.
C5_FanoutIsolationResultsCount ==
    /\ \A c \in Active : Isolated(calls[c])
    /\ \A i \in Fresh :
          /\ Isolated(log[i].call)
          /\ OneOfThreeFailed(log[i].call) =>
                /\ log[i].body.status = "partial"
                /\ Cardinality(DOMAIN log[i].body.errors) = 1
                /\ log[i].body.results_count = 4

\* C5 amended: as above, but it is total_results that equals 4; results_count
\* is the length of the returned page.
C5_FanoutIsolation ==
    /\ \A c \in Active : Isolated(calls[c])
    /\ \A i \in Fresh :
          /\ Isolated(log[i].call)
          /\ OneOfThreeFailed(log[i].call) =>
                LET r == log[i].request IN
                /\ log[i].body.status = "partial"
                /\ Cardinality(DOMAIN log[i].body.errors) = 1
                /\ log[i].body.total_results = 4
                /\ log[i].body.results_count =
                      Min(r.page_size, Max(0, 4 - (r.page - 1) * r.page_size))

C5_Witness ==
    \E i \in Fresh :
        /\ OneOfThreeFailed(log[i].call)
        /\ log[i].body.total_results = 4
        /\ log[i].body.results_count = 2

\* C6: a fresh response is completed iff no fetch failed, partial iff some
\* fetch failed and there are results, failed iff some fetch failed and there
\* are none.
C6_StatusClassification ==
    \A i \in Fresh :
        LET errs == DOMAIN log[i].call.errors # {}
            res == log[i].call.ranked # <<>>
            st == log[i].body.status
        IN  /\ st \in {"completed", "partial", "failed"}
            /\ st = "completed" <=> ~errs
            /\ st = "partial" <=> errs /\ res
            /\ st = "failed" <=> errs /\ ~res

C6_Witness ==
    \E i \in Fresh : log[i].body.status = "failed" /\ DOMAIN log[i].call.errors # {}

C8_FreshResponseNotFromCache ==
    \A i \in Fresh : log[i].body.from_cache = FALSE

\* two consecutive calls with the same request, neither overlapping any other
\* call, the first computing its response and the second looking up within the TTL
BackToBack(i) ==
    /\ i + 1 \in Entries
    /\ log[i].alone
    /\ log[i + 1].alone
    /\ log[i + 1].call.begun = i
    /\ log[i + 1].request = log[i].request
    /\ i \in Fresh
    /\ log[i + 1].call.start < log[i].call.set_at + ttl_seconds

CacheFlags == {"from_cache", "cache_hit"}

\* C9: the second of two back-to-back identical requests is answered from the
\* cache with the body of the first, the cache-hit flags apart.
C9_CacheRoundTrip ==
    \A i \in Entries :
        BackToBack(i) =>
            LET a == log[i].body
                b == log[i + 1].body
            IN  /\ log[i + 1].kind = "response"
                /\ a.from_cache = FALSE
                /\ b.from_cache = TRUE
                /\ DOMAIN b \ CacheFlags = DOMAIN a \ CacheFlags
                /\ \A f \in DOMAIN a \ CacheFlags : b[f] = a[f]

C9_Witness ==
    \E i \in Entries :
        /\ BackToBack(i)
        /\ log[i].body.search_id # None
        /\ log[i + 1].body.from_cache = TRUE
        /\ log[i + 1].body.results # <<>>

\* C10: the payload of a cache entry is what set stored, for as long as the
\* entry is there.
C10_CacheEntriesImmutable ==
    \A k \in DOMAIN cache : heap[cache[k].value].dict = heap[cache[k].value].stored

\* the fields of a response the persistence step has no business with
PersistenceFrame ==
    {"status", "errors", "results", "results_count", "total_results", "page", "page_size",
     "total_pages"}

\* C16: a call whose insert_one or insert_many failed returns its response, and
\* status, errors, results, the totals and the pagination fields of that response
\* are those of the response assembled before the persistence step.
C16_PersistenceFailureSwallowed ==
    \A i \in Entries :
        log[i].call.persist \in {"search_failed", "results_failed"} =>
            /\ log[i].kind = "response"
            /\ \A f \in PersistenceFrame : log[i].body[f] = log[i].call.assembled[f]

C16_Witness ==
    /\ \E i \in Fresh : log[i].call.persist = "search_failed" /\ log[i].body.results # <<>>
    /\ \E i \in Fresh : /\ log[i].call.persist = "results_failed"
                         /\ log[i].body.search_id # None
                         /\ log[i].body.status = "completed"

\* the sources of the request without an adapter
Unresolved(r) == {r.sources[k] : k \in 1..Len(r.sources)} \ Registry
\* the sources of the request with an adapter
Resolved(r) == {r.sources[k] : k \in 1..Len(r.sources)} \cap Registry

\* the calls made so far: those that have returned and those still running
CallRefs == {<<"log", i>> : i \in Entries} \cup {<<"slot", c>> : c \in Active}
CallOf(x) == IF x[1] = "log" THEN log[x[2]].call ELSE calls[x[2]]

\* b looked the key of a up after a did, with no store under that key in between
LookedUpTogether(a, b) ==
    /\ a.n < b.n
    /\ a.key = b.key
    /\ a.looked_up /\ ~a.hit
    /\ b.looked_up
    /\ b.seen = a.seen

\* C17: of two calls with the same key that both look up before either stores,
\* the second misses as the first did and dispatches its own fetches, and each
\* stores a response of its own; the entry under a key is the response of the
\* call that stored under that key last.
C17_NoSingleFlight ==
    /\ \A x, y \in CallRefs :
          LET a == CallOf(x)
              b == CallOf(y)
          IN  LookedUpTogether(a, b) =>
                /\ ~b.hit
                /\ DOMAIN a.tasks = Resolved(a.request)
                /\ DOMAIN b.tasks = Resolved(b.request)
                /\ a.store_seq > 0 /\ b.store_seq > 0 => a.resp # b.resp
    /\ \A x \in CallRefs :
          LET a == CallOf(x)
          IN  a.store_seq > 0 /\ a.key \in DOMAIN cache =>
                (cache[a.key].value = a.resp
                    <=> \A y \in CallRefs :
                          CallOf(y).key = a.key => CallOf(y).store_seq <= a.store_seq)

C17_Witness ==
    \E i, j \in Fresh :
        /\ LookedUpTogether(log[i].call, log[j].call)
        /\ log[j].call.store_seq < log[i].call.store_seq
        /\ log[i].body.results # <<>>
        /\ log[j].body.results # <<>>
        /\ log[i].call.key \in DOMAIN cache
        /\ cache[log[i].call.key].value = log[i].call.resp

C19_UnresolvedSourcesDropped ==
    /\ \A x \in CallRefs :
          LET a == CallOf(x)
          IN  a.looked_up /\ ~a.hit /\ Resolved(a.request) # {} =>
                /\ DOMAIN a.tasks = Resolved(a.request)
                /\ Len(a.order) = Cardinality(Resolved(a.request))
                /\ {a.order[k] : k \in 1..Len(a.order)} = Resolved(a.request)
                /\ DOMAIN a.errors \cap Unresolved(a.request) = {}
    /\ \A i \in Responses :
          Resolved(log[i].request) # {} =>
              DOMAIN log[i].body.errors \cap Unresolved(log[i].request) = {}

C19_Witness ==
    \E i \in Fresh :
        /\ Unresolved(log[i].request) # {}
        /\ DOMAIN log[i].call.tasks = {DDG}
        /\ DOMAIN log[i].body.errors = {DDG}

-----------------------------------------------------------------------------
(* The functions of the pipeline applied on their own: the arguments of one *)
(* call are drawn from bounded sets, and one step applies the function.     *)

MaxTotal == 5       \* the longest ranked sequence paginated
MaxPageSize == 3    \* the largest page_size paginated with
MaxListLen == 3     \* the longest result list deduplicated or ranked

SeqsUpTo(S, n) == UNION {[1..k -> S] : k \in 0..n}

Applied(fn, args, value) == [fn |-> fn, args |-> args, applied |-> TRUE, value |-> value]
Pending(fn, args) == [fn |-> fn, args |-> args, applied |-> FALSE]

\* a ranked sequence of T distinct results
RankedOf(T) == [i \in 1..T |-> StubHit("a", i, English)]

PaginateInputs ==
    {Pending("paginate", [ranked |-> RankedOf(T), page_size |-> S]) :
        T \in 0..MaxTotal, S \in 1..MaxPageSize}

\* the response to the request for page p of a query ranked as args.ranked, for
\* every page up to one past the last that can hold a result
PagesOf(args) ==
    [p \in 1..(Len(args.ranked) + 1) |->
        response_data(Request(<<DDG>>, p, args.page_size, "aggregation"), args.ranked, <<>>, 0)]

\* results to deduplicate: one page under three spellings and from two sources,
\* and two pages whose addresses differ in a "www." inside the path
DedupePool ==
    { DdgPage(English)[1],
      DdgPage(English)[2],
      Hit(<<"q">>, <<"x", ".", "o", "r", "g">>, <<"q">>, StubOkA, English),
      Hit(<<"q">>, <<"a", ".", "o", "r", "g", "/", "w", "w", "w", ".", "b">>, <<"q">>, StubOkA, English),
      Hit(<<"q">>, <<"a", ".", "o", "r", "g", "/", "b">>, <<"q">>, StubOkC, English) }

DedupeInputs == {Pending("dedupe", x) : x \in SeqsUpTo(DedupePool, MaxListLen)}

\* results to rank: the three of the DuckDuckGo page, whose scores differ, and
\* two of a stub adapter, whose scores are the same
RankPool ==
    { DdgPage(English)[1], DdgPage(English)[2], DdgPage(English)[3],
      StubHit("a", 1, English), StubHit("a", 2, English) }

RankInputs ==
    {Pending("rank", [results |-> x, query |-> <<"q">>]) : x \in SeqsUpTo(RankPool, MaxListLen)}

MaxTitleWords == 20     \* the longest title scored, in words

\* a title of n words: the word `first` and then n - 1 times the word "a"
RECURSIVE TitleOf(_, _)
TitleOf(first, n) == IF n = 1 THEN <<first>> ELSE TitleOf(first, n - 1) \o <<" ", "a">>

\* the title with one more occurrence of the keyword, at its front or at its back
WithOccurrence(title, keyword, at) ==
    IF at = "front" THEN keyword \o <<" ">> \o title ELSE title \o <<" ">> \o keyword

ScoreInputs ==
    {Pending("score", [result |-> Hit(TitleOf(first, n), <<"x", ".", "o", "r", "g">>, <<"s">>, DDG, English),
                       query |-> <<"q">>, keyword |-> <<"q">>, at |-> at]) :
        first \in {"q", "a"}, n \in 1..MaxTitleWords, at \in {"front", "back"}}

\* the score rank_results gives the result for the query
ScoreFor(result, query) == calculate_score(result, WordsOf(Lower(query)), Lower(query))

CalcPaginate ==
    /\ calc.fn = "paginate" /\ ~calc.applied
    /\ calc' = Applied("paginate", calc.args, PagesOf(calc.args))
    /\ UNCHANGED <<now, cache, hits, misses, heap, calls, log, nSearch, db, workload, written, lastOp>>

CalcDedupe ==
    /\ calc.fn = "dedupe" /\ ~calc.applied
    /\ calc' = Applied("dedupe", calc.args, deduplicate_results(calc.args))
    /\ UNCHANGED <<now, cache, hits, misses, heap, calls, log, nSearch, db, workload, written, lastOp>>

CalcRank ==
    /\ calc.fn = "rank" /\ ~calc.applied
    /\ calc' = Applied("rank", calc.args, rank_results(calc.args.results, calc.args.query))
    /\ UNCHANGED <<now, cache, hits, misses, heap, calls, log, nSearch, db, workload, written, lastOp>>

\* the score of a result, and of the same result with one more occurrence of a
\* keyword of the query in its title
MaxAnalyzeCalls == 2    \* the calls of analyze made on one query

\* "best python api", "worst bug", "best worst phone", "how to install Docker",
\* "New York vs Rome", "123", "what is love?", "is it down?"
AnalyzeQueries ==
    { <<"b", "e", "s", "t", " ", "p", "y", "t", "h", "o", "n", " ", "a", "p", "i">>,
      <<"w", "o", "r", "s", "t", " ", "b", "u", "g">>,
      <<"b", "e", "s", "t", " ", "w", "o", "r", "s", "t", " ", "p", "h", "o", "n", "e">>,
      <<"h", "o", "w", " ", "t", "o", " ", "i", "n", "s", "t", "a", "l", "l", " ", "D", "o", "c", "k", "e", "r">>,
      <<"N", "e", "w", " ", "Y", "o", "r", "k", " ", "v", "s", " ", "R", "o", "m", "e">>,
      <<"1", "2", "3">>,
      <<"w", "h", "a", "t", " ", "i", "s", " ", "l", "o", "v", "e", "?">>,
      <<"i", "s", " ", "i", "t", " ", "d", "o", "w", "n", "?">> }

AnalyzeInputs ==
    {Pending("analyze", [query |-> q, hash_seed |-> h]) : q \in AnalyzeQueries, h \in HashSeeds}

AnalysesSoFar == IF calc.applied THEN calc.value ELSE <<>>

\* what the network can answer to one request: a page with results, a page
\* without, a timeout, a client error (connection failure or HTTP error status)
\* and a body that cannot be decoded
Answers == {"html", "html_no_results", "timeout", "client_error", "decode_error"}

FetchInputs ==
    {Pending("fetch", [trace |-> t, languages |-> <<English>>, max_results |-> 2]) :
        t \in [1..(retry_count + 1) -> Answers]}

MaxOver == 2    \* how far above the sweep threshold the largest map set into is

\* the time of the set under study
SweepTime == 2 * ttl_seconds

\* the timestamp of entry k of a map: "fresh" maps have no expired entry,
\* "stale" maps only entries of age exactly TTL, "few_stale" maps two expired
\* entries (ages TTL and TTL + 1), "mixed" maps ages TTL, TTL + 1, TTL - 1 and 0
AgeProfiles == {"fresh", "stale", "few_stale", "mixed"}

TimestampOf(profile, k) ==
    CASE profile = "fresh" -> SweepTime - (ttl_seconds - 1)
      [] profile = "stale" -> SweepTime - ttl_seconds
      [] profile = "few_stale" ->
            IF k <= 2 THEN SweepTime - ttl_seconds - (k - 1) ELSE SweepTime - 1
      [] OTHER ->
            CASE k % 4 = 0 -> SweepTime - ttl_seconds
              [] k % 4 = 1 -> SweepTime - ttl_seconds - 1
              [] k % 4 = 2 -> SweepTime - ttl_seconds + 1
              [] OTHER -> SweepTime

\* a map of n entries (the keys are numbered; the values do not matter)
BulkCache(n, profile) ==
    [k \in 1..n |-> [value |-> "v1", timestamp |-> TimestampOf(profile, k)]]

\* a set of a key already in the map (1) or of a new key (size + 1)
SetInputs ==
    {Pending("set", [size |-> n, profile |-> p, key |-> IF new THEN n + 1 ELSE 1]) :
        n \in (CleanupThreshold - 1)..(CleanupThreshold + MaxOver),
        p \in AgeProfiles,
        new \in BOOLEAN}

CalcScore ==
    /\ calc.fn = "score" /\ ~calc.applied
    /\ LET a == calc.args
           more == [a.result EXCEPT !.title = WithOccurrence(a.result.title, a.keyword, a.at)]
       IN  calc' = Applied("score", a, [before |-> ScoreFor(a.result, a.query),
                                        after |-> ScoreFor(more, a.query)])
    /\ UNCHANGED <<now, cache, hits, misses, heap, calls, log, nSearch, db, workload, written, lastOp>>

\* one more call of analyzer.analyze(query) in the same process
CalcAnalyze ==
    /\ calc.fn = "analyze" /\ Len(AnalysesSoFar) < MaxAnalyzeCalls
    /\ \E language \in detect_language(calc.args.query) :
          calc' = Applied("analyze", calc.args,
                          Append(AnalysesSoFar,
                                 analyze(calc.args.query, language, calc.args.hash_seed)))
    /\ UNCHANGED <<now, cache, hits, misses, heap, calls, log, nSearch, db, workload, written, lastOp>>

\* one call of search_duckduckgo against a network that answers as the trace says
CalcFetch ==
    /\ calc.fn = "fetch" /\ ~calc.applied
    /\ calc' = Applied("fetch", calc.args,
                       search_duckduckgo(calc.args.languages, calc.args.max_results, calc.args.trace))
    /\ UNCHANGED <<now, cache, hits, misses, heap, calls, log, nSearch, db, workload, written, lastOp>>

\* one call of cache.set at SweepTime on a map of about CleanupThreshold entries
CalcSet ==
    /\ calc.fn = "set" /\ ~calc.applied
    /\ calc' = Applied("set", calc.args,
                       CacheAfterSet(BulkCache(calc.args.size, calc.args.profile),
                                     calc.args.key, "v2", SweepTime))
    /\ UNCHANGED <<now, cache, hits, misses, heap, calls, log, nSearch, db, workload, written, lastOp>>

InitCalc ==
    /\ now = 0
    /\ cache = <<>>
    /\ hits = 0
    /\ misses = 0
    /\ heap = <<>>
    /\ calls = [s \in Slots |-> Idle]
    /\ log = <<>>
    /\ nSearch = 0
    /\ db = None
    /\ workload = None
    /\ written = <<>>
    /\ lastOp = [op |-> "none"]
    /\ \/ calc \in PaginateInputs
       \/ calc \in DedupeInputs
       \/ calc \in RankInputs
       \/ calc \in ScoreInputs
       \/ calc \in AnalyzeInputs
       \/ calc \in FetchInputs
       \/ calc \in SetInputs

NextCalc ==
    \/ CalcPaginate
    \/ CalcDedupe
    \/ CalcRank
    \/ CalcScore
    \/ CalcAnalyze
    \/ CalcFetch
    \/ CalcSet

SpecCalc == InitCalc /\ [][NextCalc]_vars

Did(fn) == calc.fn = fn /\ calc.applied

\* the least k with k * S >= T
CeilDiv(T, S) == CHOOSE k \in 0..T : k * S >= T /\ \A j \in 0..(k - 1) : j * S < T

\* the results of pages 1..n, one after the other
RECURSIVE PagesJoined(_, _)
PagesJoined(pages, n) ==
    IF n = 0 THEN <<>> ELSE PagesJoined(pages, n - 1) \o pages[n].results

\* C23: a search whose lookup hits returns the cached payload marked as a hit
\* and does nothing else: it dispatches no fetch, does not deduplicate, rank or
\* paginate, leaves every cache entry with its payload reference and insertion
\* timestamp, and hands nothing to the database.
C23_CacheHitFrame ==
    [][hits' # hits =>
          /\ hits' = hits + 1
          /\ cache' = cache
          /\ db' = db
          /\ calls' = calls
          /\ misses' = misses
          /\ Len(log') = Len(log) + 1
          /\ LET e == log'[Len(log')]
                 id == e.call.resp
             IN  /\ e.kind = "response"
                 /\ id = GetValue(cache, e.call.key, now)
                 /\ e.body = heap'[id].dict
                 /\ e.body.from_cache = TRUE /\ e.body.cache_hit = TRUE
                 /\ DOMAIN e.body \ CacheFlags = DOMAIN heap[id].dict \ CacheFlags
                 /\ \A f \in DOMAIN e.body \ CacheFlags : e.body[f] = heap[id].dict[f]
                 /\ \A h \in DOMAIN heap : h # id => heap'[h] = heap[h]
                 /\ DOMAIN heap' = DOMAIN heap
                 /\ e.call.tasks = <<>> /\ e.call.order = <<>>
                 /\ e.call.set_at = -1 /\ e.call.store_seq = 0
                 /\ e.call.persist = "none"]_vars

\* a hit has been answered, the entry it read is still in the cache with the
\* same payload reference, and a search is in the database
C23_Witness ==
    \E i \in Responses :
        /\ log[i].call.hit
        /\ log[i].call.key \in DOMAIN cache
        /\ cache[log[i].call.key].value = log[i].call.resp
        /\ db.searches # {}

\* C28: responses are cached whatever their status: when a search that missed
\* has answered failed or partial, the identical request made next, within the
\* TTL, is answered from the cache with the same status and the same error
\* map, and dispatches no fetch.
C28_FailuresCached ==
    \A i \in Entries :
        BackToBack(i) /\ log[i].body.status \in {"failed", "partial"} =>
            /\ log[i + 1].kind = "response"
            /\ log[i + 1].call.hit
            /\ log[i + 1].body.from_cache = TRUE
            /\ log[i + 1].body.status = log[i].body.status
            /\ log[i + 1].body.errors = log[i].body.errors
            /\ log[i + 1].call.tasks = <<>>

\* a failed or partial response has been served again, with its error map
C28_Witness ==
    \E i \in Entries :
        /\ BackToBack(i)
        /\ log[i].body.status \in {"failed", "partial"}
        /\ DOMAIN log[i + 1].body.errors # {}
        /\ log[i + 1].call.hit

\* the four parts of a request that the cache key is made of, the lists taken
\* as sets
SameKeyTuple(a, b) ==
    /\ a.query = b.query
    /\ Range(a.sources) = Range(b.sources)
    /\ Range(a.languages) = Range(b.languages)
    /\ a.max_results = b.max_results

\* C29: requests that differ in the query, the set of sources, the set of
\* languages or max_results never address the same cache entry: a response
\* served from the cache was stored by a call with the same four parts.
C29_KeysSeparateRequests ==
    \A i \in Responses :
        log[i].call.hit =>
            \A x \in CallRefs :
                CallOf(x).n = log[i].call.resp => SameKeyTuple(CallOf(x).request, log[i].request)

\* C11: total_pages is ceil(T/S) (0 for no results); the pages 1..total_pages of
\* one ranked sequence, one after the other, are that sequence (every result once,
\* none twice); a page beyond total_pages is empty.
C11_Pagination ==
    Did("paginate") =>
        LET T == Len(calc.args.ranked)
            S == calc.args.page_size
            pages == calc.value
        IN  /\ \A p \in DOMAIN pages :
                /\ pages[p].total_results = T
                /\ pages[p].total_pages = CeilDiv(T, S)
                /\ pages[p].results_count = Len(pages[p].results)
                /\ p > CeilDiv(T, S) => pages[p].results = <<>>
            /\ CeilDiv(T, S) + 1 \in DOMAIN pages
            /\ PagesJoined(pages, CeilDiv(T, S)) = calc.args.ranked

C11_Witness ==
    /\ Did("paginate")
    /\ Len(calc.args.ranked) = 5
    /\ calc.args.page_size = 2
    /\ calc.value[3].results_count = 1
    /\ calc.value[4].results = <<>>

\* the elements of x at the positions in I, in the order of x
RECURSIVE Restrict(_, _)
Restrict(x, I) ==
    IF x = <<>> THEN <<>>
    ELSE LET head == Restrict(SubSeq(x, 1, Len(x) - 1), I)
         IN  IF Len(x) \in I THEN Append(head, x[Len(x)]) ELSE head

\* the positions of x holding the first result of their group under normalization N
FirstOfGroup(x, N(_)) ==
    {i \in 1..Len(x) : \A j \in 1..(i - 1) : N(x[j].url) # N(x[i].url)}

\* C12: deduplicating twice gives what deduplicating once gives; the output is
\* the input restricted to the first result of every group of results with the
\* same normalized URL, in input order, whatever the sources of the group.
C12_DedupFirstOccurrence ==
    Did("dedupe") =>
        /\ deduplicate_results(calc.value) = calc.value
        /\ calc.value = Restrict(calc.args, FirstOfGroup(calc.args, normalize_url))

C12_Witness ==
    /\ Did("dedupe")
    /\ Len(calc.args) = 3
    /\ normalize_url(calc.args[1].url) = normalize_url(calc.args[3].url)
    /\ calc.args[1].source # calc.args[3].source
    /\ calc.args[1].url # calc.args[3].url
    /\ calc.value = <<calc.args[1], calc.args[2]>>

StripPrefix(s, p) == IF StartsWith(s, p) THEN SubSeq(s, Len(p) + 1, Len(s)) ELSE s

\* the normalization the claim names: lowercase, without a leading scheme,
\* without a leading "www.", without a trailing slash
SpecifiedNormalization(url) ==
    LET hostpath == StripPrefix(StripPrefix(StripPrefix(Lower(url), HttpScheme), HttpsScheme), WwwPrefix)
    IN  IF hostpath # <<>> /\ hostpath[Len(hostpath)] = "/"
        THEN SubSeq(hostpath, 1, Len(hostpath) - 1)
        ELSE hostpath

\* C13: the results merged are exactly those whose URLs are equal after the
\* specified normalization: the output is the input restricted to the first
\* result of every group under that normalization.
C13_DedupIdentity ==
    Did("dedupe") =>
        calc.value = Restrict(calc.args, FirstOfGroup(calc.args, SpecifiedNormalization))

Injections(n) == {f \in [1..n -> 1..n] : \A i, j \in 1..n : f[i] = f[j] => i = j}

\* C14: the output of rank is the input in another order (each result with its
\* score), descending by score, results of equal score in their input order.
C14_RankStablePermutation ==
    Did("rank") =>
        LET x == calc.args.results
            y == calc.value
        IN  /\ Len(y) = Len(x)
            /\ \E f \in Injections(Len(x)) :
                    /\ \A i \in 1..Len(x) :
                           y[i] = [x[f[i]] EXCEPT !.score = ScoreFor(x[f[i]], calc.args.query)]
                    /\ \A i, j \in 1..Len(x) :
                           i < j => \/ y[i].score > y[j].score
                                    \/ y[i].score = y[j].score /\ f[i] < f[j]

C14_Witness ==
    /\ Did("rank")
    /\ Len(calc.args.results) = 3
    /\ calc.args.results[1] # calc.args.results[3]
    /\ calc.value[2].score = calc.value[3].score
    /\ calc.value[1].url = calc.args.results[2].url
    /\ calc.value[2].url = calc.args.results[1].url
    /\ calc.value[3].url = calc.args.results[3].url

\* C15: one more occurrence of a keyword of the query in the title of a result
\* never lowers the score of the result.
C15_TitleKeywordMonotonic ==
    Did("score") => calc.value.after >= calc.value.before

\* C20: every ranked result carries a score of at least 0.1 (1 in tenths).
C20_ScoreFloor ==
    Did("rank") => \A i \in 1..Len(calc.value) : calc.value[i].score >= 1

C20_Witness ==
    /\ Did("rank")
    /\ \E i \in 1..Len(calc.value) :
          /\ calc.value[i].score = 1
          /\ raw_score(calc.value[i], {<<"q">>}, <<"q">>) < 0

\* C21: analyze is deterministic and pure: the calls made with one query text
\* return values equal in every field, the language and the order and content
\* of the entities included, whatever calls came before.
C21_AnalyzeDeterministic ==
    Did("analyze") =>
        \A i, j \in 1..Len(calc.value) : calc.value[i] = calc.value[j]

\* the part of C21 that holds: all fields but the language are equal
C21_AllButLanguage ==
    Did("analyze") =>
        \A i, j \in 1..Len(calc.value) :
            [calc.value[i] EXCEPT !.language = "-"] = [calc.value[j] EXCEPT !.language = "-"]

\* C22: the sentiment is positive only when the tokens of the query meet the
\* positive lexicon and not the negative one, negative only in the opposite
\* case, and neutral when they meet neither or both.
C22_SentimentTie ==
    Did("analyze") =>
        \A i \in 1..Len(calc.value) :
            LET words == Range(Split(Lower(calc.value[i].query)))
                pos == words \cap positive_words # {}
                neg == words \cap negative_words # {}
            IN  calc.value[i].sentiment =
                    IF pos /\ ~neg THEN "positive"
                    ELSE IF neg /\ ~pos THEN "negative"
                    ELSE "neutral"

Succeeds(answer) == answer \in {"html", "html_no_results"}

\* C27: the adapter sends at most retry_count + 1 requests and stops at the
\* first that succeeds; whatever the kind of failure (network failure, timeout,
\* failure to read the page), it goes on to the next attempt until the budget
\* is spent, and only then reports the failure.
C27_RetryEveryFailure ==
    Did("fetch") =>
        LET trace == calc.args.trace
            good == {i \in 1..(retry_count + 1) : Succeeds(trace[i])}
        IN  /\ calc.value.attempts <= retry_count + 1
            /\ IF good # {}
               THEN /\ calc.value.state = "ok"
                    /\ calc.value.attempts = CHOOSE i \in good : \A j \in good : i <= j
               ELSE /\ calc.value.state = "failed"
                    /\ calc.value.attempts = retry_count + 1

\* the part of C27 that holds: timeouts and client errors are retried until
\* the budget is spent, and no call sends more than retry_count + 1 requests
C27_NetworkFailuresRetried ==
    Did("fetch") =>
        LET trace == calc.args.trace
            good == {i \in 1..(retry_count + 1) : Succeeds(trace[i])}
        IN  /\ calc.value.attempts <= retry_count + 1
            /\ (\A i \in 1..(retry_count + 1) : trace[i] # "decode_error") =>
                  IF good # {}
                  THEN /\ calc.value.state = "ok"
                       /\ calc.value.attempts = CHOOSE i \in good : \A j \in good : i <= j
                  ELSE /\ calc.value.state = "failed"
                       /\ calc.value.attempts = retry_count + 1

\* the map as the assignment of set leaves it, before any sweep
Assigned == Put(BulkCache(calc.args.size, calc.args.profile), calc.args.key,
                [value |-> "v2", timestamp |-> SweepTime])

====
